---- MODULE Spec2Model ----
(***************************************************************************)
(* The sync_update tool of the Gitea MCP server (src/tools/sync-update.ts, *)
(* duplicated in GiteaMcpServer.handleSyncUpdate): one call of the handler *)
(* against a Gitea contents API.  The handler normalizes the requested     *)
(* file operations, probes the remote file of each one, builds the list   *)
(* needsUpdate, picks a strategy and executes the operations.              *)
(*                                                                         *)
(* A network call (fetch + await of its response) is one step: the server  *)
(* serves a request atomically, and the handler does nothing between       *)
(* sending a request and receiving its response.                           *)
(***************************************************************************)
EXTENDS Integers, Sequences, FiniteSets, TLC

VARIABLES
  args,             \* the arguments of the call (params of the handler)
  store,            \* the remote branch: path -> stored content, or Absent
  pc,               \* position of the handler
  normalizedFiles,  \* FileOperation objects made by validateAndNormalizeFiles
  needsUpdate,      \* the plan: references (indexes) into normalizedFiles
  i,                \* detectChangesNeeded: index of the next file to probe
  j,                \* executeIndividualUpdates: index of the next plan entry
  strategy,         \* result of determineStrategy
  executor,         \* which executor the handler called
  result,           \* the result object of the handler
  response,         \* what the handler returned or threw
  calls,            \* history of the network calls issued, with their responses
  run,              \* 1 for the first call, 2 for the repeated one
  first             \* response of the first call, kept when it is repeated

vars == <<args, store, pc, normalizedFiles, needsUpdate, i, j, strategy,
          executor, result, response, calls, run, first>>

(***************************************************************************)
(* Bounds and input values                                                 *)
(***************************************************************************)
MaxFiles == 2

\* Strings (paths, contents, shas) are sequences of characters; a field that
\* is undefined or '' is the empty sequence.  A missing operation is "".
None == <<>>

A == <<"a">>
B == <<"d", "/", "b">>
Bback == <<"d", "\\", "b">>
Paths == {A, B}
X == <<"X">>
Y == <<"Y">>
Contents == {X, Y}

\* Gitea's file sha is the git blob hash of the content.
Sha(c) == <<"sha">> \o c

\* Buffer.from(s, 'utf8').toString('base64') and
\* Buffer.from(e, 'base64').toString('utf8')
Base64Encode(c) == <<"b64">> \o c
Base64Decode(e) == IF e = None THEN None ELSE Tail(e)

\* A path of the remote branch that holds no file, or a file with a content
AbsentFile == [exists |-> FALSE, content |-> None]
StoredFile(c) == [exists |-> TRUE, content |-> c]

(***************************************************************************)
(* The raw file records a caller may send (args.files)                     *)
(***************************************************************************)
RawFile(p, c, o, s) == [path |-> p, content |-> c, operation |-> o, sha |-> s]

CallerShas == {None, Sha(X)}

ValidRawFiles ==
  {RawFile(p, X, "add", None) : p \in {A, Bback}}
    \cup {RawFile(p, X, "modify", s) : p \in {A, Bback}, s \in CallerShas}
    \cup {RawFile(p, None, "delete", s) : p \in {A, Bback}, s \in CallerShas}
    \cup {RawFile(A, X, "", None),
          RawFile(A, X, "add", Sha(X)),
          RawFile(A, Y, "modify", None),
          RawFile(B, X, "modify", None)}

InvalidRawFiles ==
  {RawFile(None, X, "add", None),
   RawFile(A, X, "rename", None),
   RawFile(A, None, "modify", None),
   RawFile(<<".", ".", "/", "a">>, X, "add", None),
   RawFile(<<"/", "a">>, X, "add", None),
   RawFile(<<"\\", "a">>, X, "add", None)}

RawFiles == ValidRawFiles \cup InvalidRawFiles

SeqsUpTo(S, n) == UNION {[1..m -> S] : m \in 0..n}

\* Paths as a caller may write them: the strings of at most MaxPathLen
\* characters over a letter, the dot and the two separators
MaxPathLen == 4
PathChars == {"a", ".", "/", "\\"}
PathStrings == SeqsUpTo(PathChars, MaxPathLen)

Strategies == {"auto", "batch", "individual"}

\* config.gitea.instances holds one instance, "main"
ConfiguredInstances == {"main"}

(***************************************************************************)
(* validateAndNormalizeFiles                                               *)
(***************************************************************************)
\* file.path.replace(/\\/g, '/')
ReplaceBackslashes(p) ==
  [n \in 1..Len(p) |-> IF p[n] = "\\" THEN "/" ELSE p[n]]

\* normalizedPath.includes('..')
IncludesDotDot(p) ==
  \E n \in 1..(Len(p) - 1) : p[n] = "." /\ p[n + 1] = "."

\* normalizedPath.startsWith('/')
StartsWithSlash(p) == Len(p) > 0 /\ p[1] = "/"

\* !x for the values a field can have
Falsy(x) == x = None

\* file.operation || 'add'
OperationOf(file) == IF file.operation = "" THEN "add" ELSE file.operation

PlainError == [class |-> "Error", code |-> ""]
AppValidationError == [class |-> "AppError", code |-> "VALIDATION_ERROR"]
NoError == [class |-> "", code |-> ""]

\* Faulty variant: the path is checked as the caller wrote it, before its
\* separators are normalized
FileErrorOfRawPath(file) ==
  IF Falsy(file.path) THEN PlainError
  ELSE IF OperationOf(file) \notin {"add", "modify", "delete"} THEN PlainError
  ELSE IF OperationOf(file) \in {"add", "modify"} /\ Falsy(file.content)
    THEN PlainError
  ELSE IF IncludesDotDot(file.path) \/ StartsWithSlash(file.path)
    THEN AppValidationError
  ELSE NoError

\* The error the map callback throws for one record, or NoError
FileError(file) ==
  IF Falsy(file.path) THEN PlainError
  ELSE IF OperationOf(file) \notin {"add", "modify", "delete"} THEN PlainError
  ELSE IF OperationOf(file) \in {"add", "modify"} /\ Falsy(file.content)
    THEN PlainError
  ELSE IF IncludesDotDot(ReplaceBackslashes(file.path))
          \/ StartsWithSlash(ReplaceBackslashes(file.path))
    THEN AppValidationError
  ELSE NoError

\* The FileOperation object the map callback returns for one record
NormalizeFile(file) ==
  [path |-> ReplaceBackslashes(file.path),
   content |-> file.content,
   operation |-> OperationOf(file),
   sha |-> file.sha]

\* files.map(...): the first record that throws ends the map
FirstInvalid(files) ==
  IF \E n \in 1..Len(files) : FileError(files[n]) # NoError
    THEN CHOOSE n \in 1..Len(files) :
           /\ FileError(files[n]) # NoError
           /\ \A m \in 1..(n - 1) : FileError(files[m]) = NoError
    ELSE 0

validateAndNormalizeFiles(files) ==
  [n \in 1..Len(files) |-> NormalizeFile(files[n])]

(***************************************************************************)
(* The Gitea contents API, as the handler's fetch calls see it.  A         *)
(* response is [status, sha, content]; status 0 stands for a fetch that    *)
(* threw (no response).                                                    *)
(***************************************************************************)
Response(st, sh, c) == [status |-> st, sha |-> sh, content |-> c]

\* response.ok
Ok(r) == r.status >= 200 /\ r.status <= 299

\* GET /contents/{path}?ref={branch}
StoreGet(st, p) ==
  IF st[p].exists
    THEN Response(200, Sha(st[p].content), Base64Encode(st[p].content))
    ELSE Response(404, None, None)

\* What a probe of path p can come back with: the store's answer, an error
\* status, or an exception of fetch
ProbeResponses(st, p) ==
  {StoreGet(st, p), Response(500, None, None), Response(0, None, None)}

\* One change of a file as the API receives it
FileChange(kind, p, c, sh) ==
  [operation |-> kind, path |-> p, content |-> c, sha |-> sh]

\* The store's verdict on one change: create fails on an existing file,
\* update and delete need the sha of the stored file
Accepts(st, ch) ==
  CASE ch.operation = "create" -> ~st[ch.path].exists
    [] ch.operation \in {"update", "delete"} ->
         st[ch.path].exists /\ ch.sha = Sha(st[ch.path].content)
    [] OTHER -> FALSE

RejectStatus(st, ch) ==
  IF ch.operation # "create" /\ ~st[ch.path].exists THEN 404 ELSE 422

Applied(st, ch) ==
  IF ch.operation = "delete"
    THEN [st EXCEPT ![ch.path] = AbsentFile]
    ELSE [st EXCEPT ![ch.path] = StoredFile(Base64Decode(ch.content))]

\* POST / PUT / DELETE /contents/{path}: [resp, store]
StoreWrite(st, ch) ==
  IF Accepts(st, ch)
    THEN [resp |-> Response(IF ch.operation = "create" THEN 201 ELSE 200,
                            None, None),
          store |-> Applied(st, ch)]
    ELSE [resp |-> Response(RejectStatus(st, ch), None, None), store |-> st]

\* POST /contents with a list of changes: one commit, all or nothing
RECURSIVE StoreBatch(_, _, _)
StoreBatch(st0, st, chs) ==
  IF chs = <<>> THEN [resp |-> Response(201, None, None), store |-> st]
  ELSE IF Accepts(st, Head(chs))
    THEN StoreBatch(st0, Applied(st, Head(chs)), Tail(chs))
  ELSE [resp |-> Response(RejectStatus(st, Head(chs)), None, None),
        store |-> st0]

\* What a write can come back with: the store's verdict, or an error status
\* or an exception that leaves the store as it was
WriteOutcomes(st, verdict) ==
  {verdict,
   [resp |-> Response(500, None, None), store |-> st],
   [resp |-> Response(0, None, None), store |-> st]}

(***************************************************************************)
(* detectChangesNeeded: the body of the loop for one file and one response *)
(* [file: the FileOperation object afterwards, push: pushed on needsUpdate]*)
(***************************************************************************)
\* Faulty variants of the loop body
\* - a modify whose content equals the remote content is pushed all the same
detectOnePushesEqual(file, r) ==
  IF Ok(r)
    THEN [file |-> IF file.operation \in {"modify", "delete"}
                     THEN [file EXCEPT !.sha = r.sha]
                     ELSE file,
          push |-> TRUE]
  ELSE IF r.status = 404
    THEN IF file.operation = "add" THEN [file |-> file, push |-> TRUE]
         ELSE IF file.operation = "modify"
           THEN [file |-> [file EXCEPT !.operation = "add", !.sha = None],
                 push |-> TRUE]
         ELSE [file |-> file, push |-> FALSE]
  ELSE [file |-> file, push |-> TRUE]

\* - a modify of a file that is not on the remote stays a modify
detectOneKeepsModify(file, r) ==
  IF Ok(r)
    THEN [file |-> IF file.operation \in {"modify", "delete"}
                     THEN [file EXCEPT !.sha = r.sha]
                     ELSE file,
          push |-> ~(file.operation = "modify"
                     /\ file.content = Base64Decode(r.content))]
  ELSE IF r.status = 404
    THEN [file |-> file, push |-> file.operation # "delete"]
  ELSE [file |-> file, push |-> TRUE]

\* - a delete of a file that is not on the remote is pushed
detectOnePushesAbsentDelete(file, r) ==
  IF Ok(r)
    THEN [file |-> IF file.operation \in {"modify", "delete"}
                     THEN [file EXCEPT !.sha = r.sha]
                     ELSE file,
          push |-> ~(file.operation = "modify"
                     /\ file.content = Base64Decode(r.content))]
  ELSE IF r.status = 404
    THEN IF file.operation = "modify"
           THEN [file |-> [file EXCEPT !.operation = "add", !.sha = None],
                 push |-> TRUE]
           ELSE [file |-> file, push |-> TRUE]
  ELSE [file |-> file, push |-> TRUE]

\* - the remote sha is taken only when the caller gave none
detectOneKeepsCallerSha(file, r) ==
  IF Ok(r)
    THEN [file |-> IF file.operation \in {"modify", "delete"} /\ file.sha = None
                     THEN [file EXCEPT !.sha = r.sha]
                     ELSE file,
          push |-> ~(file.operation = "modify"
                     /\ file.content = Base64Decode(r.content))]
  ELSE IF r.status = 404
    THEN IF file.operation = "add" THEN [file |-> file, push |-> TRUE]
         ELSE IF file.operation = "modify"
           THEN [file |-> [file EXCEPT !.operation = "add", !.sha = None],
                 push |-> TRUE]
         ELSE [file |-> file, push |-> FALSE]
  ELSE [file |-> file, push |-> TRUE]

\* - a file whose probe failed is left out of the plan
detectOneDropsUnprobed(file, r) ==
  IF Ok(r)
    THEN [file |-> IF file.operation \in {"modify", "delete"}
                     THEN [file EXCEPT !.sha = r.sha]
                     ELSE file,
          push |-> ~(file.operation = "modify"
                     /\ file.content = Base64Decode(r.content))]
  ELSE IF r.status = 404
    THEN IF file.operation = "add" THEN [file |-> file, push |-> TRUE]
         ELSE IF file.operation = "modify"
           THEN [file |-> [file EXCEPT !.operation = "add", !.sha = None],
                 push |-> TRUE]
         ELSE [file |-> file, push |-> FALSE]
  ELSE [file |-> file, push |-> FALSE]

detectOne(file, r) ==
  IF Ok(r)
    THEN [file |-> IF file.operation \in {"modify", "delete"}
                     THEN [file EXCEPT !.sha = r.sha]
                     ELSE file,
          push |-> ~(file.operation = "modify"
                     /\ file.content = Base64Decode(r.content))]
  ELSE IF r.status = 404
    THEN IF file.operation = "add" THEN [file |-> file, push |-> TRUE]
         ELSE IF file.operation = "modify"
           THEN [file |-> [file EXCEPT !.operation = "add", !.sha = None],
                 push |-> TRUE]
         ELSE [file |-> file, push |-> FALSE]
  \* an error status throws, and the catch pushes the file as it is; so does
  \* an exception of fetch
  ELSE [file |-> file, push |-> TRUE]

(***************************************************************************)
(* determineStrategy                                                       *)
(***************************************************************************)
\* Faulty variant: deletes do not keep auto from choosing batch
determineStrategyIgnoresDelete(requestedStrategy, files) ==
  IF requestedStrategy # "auto" THEN requestedStrategy
  ELSE IF Len(files) = 1 THEN "individual"
  ELSE "batch"

determineStrategy(requestedStrategy, files) ==
  IF requestedStrategy # "auto" THEN requestedStrategy
  ELSE IF Len(files) = 1 THEN "individual"
  ELSE IF \E n \in 1..Len(files) : files[n].operation = "delete"
    THEN "individual"
  ELSE "batch"

\* Faulty variant: batch is used whatever the size of the plan
ChooseExecutorNoDowngrade(strat, files) ==
  IF strat = "batch" THEN "batch" ELSE "individual"

\* The handler's choice of executor
ChooseExecutor(strat, files) ==
  IF strat = "batch" /\ Len(files) > 1 THEN "batch" ELSE "individual"

(***************************************************************************)
(* The requests of the executors                                           *)
(***************************************************************************)
\* executeDeleteOperation / executeCreateOrUpdateOperation: method and body
IndividualMethod(file) ==
  IF file.operation = "delete" THEN "DELETE"
  ELSE IF file.operation = "add" THEN "POST"
  ELSE "PUT"

\* Faulty variant: the DELETE is sent without the sha
IndividualChangeDeleteNoSha(file) ==
  IF file.operation = "delete"
    THEN FileChange("delete", file.path, None, None)
  ELSE IF file.operation = "add"
    THEN FileChange("create", file.path, Base64Encode(file.content), None)
  ELSE FileChange("update", file.path, Base64Encode(file.content), file.sha)

IndividualChange(file) ==
  IF file.operation = "delete"
    THEN FileChange("delete", file.path, None, file.sha)
  ELSE IF file.operation = "add"
    THEN FileChange("create", file.path, Base64Encode(file.content), None)
  ELSE FileChange("update", file.path, Base64Encode(file.content), file.sha)

\* Faulty variant: the combined commit carries no sha
BatchChangeNoSha(file) ==
  IF file.operation = "delete"
    THEN FileChange("delete", file.path, None, None)
  ELSE FileChange(IF file.operation = "modify" THEN "update" ELSE "create",
                  file.path, Base64Encode(file.content), None)

\* executeBatchUpdate: one element of batchFiles
BatchChange(file) ==
  IF file.operation = "delete"
    THEN FileChange("delete", file.path, None, file.sha)
  ELSE FileChange(IF file.operation = "modify" THEN "update" ELSE "create",
                  file.path, Base64Encode(file.content),
                  IF file.operation = "modify" THEN file.sha ELSE None)

(***************************************************************************)
(* The result object and the responses of the handler                      *)
(***************************************************************************)
NoFailure == [kind |-> "", status |-> 0]

Outcome(file, st, err) ==
  [file |-> file.path, operation |-> file.operation, status |-> st,
   error |-> err]

\* Faulty variant: analyzed counts the operations of the plan
NewResultAnalyzedPlan(nFiles, nNormalized, nPlan) ==
  [discovered |-> nFiles, analyzed |-> nPlan, needsUpdate |-> nPlan,
   processed |-> 0, succeeded |-> 0, failed |-> 0, skipped |-> 0,
   operations |-> <<>>, conflicts |-> <<>>, unchanged |-> <<>>]

NewResult(nFiles, nNormalized, nPlan) ==
  [discovered |-> nFiles, analyzed |-> nNormalized, needsUpdate |-> nPlan,
   processed |-> 0, succeeded |-> 0, failed |-> 0, skipped |-> 0,
   operations |-> <<>>, conflicts |-> <<>>, unchanged |-> <<>>]

NoResponse ==
  [kind |-> "none", success |-> FALSE, strategy |-> "",
   summary |-> NewResult(0, 0, 0), filesNeedingUpdate |-> <<>>,
   code |-> "", cause |-> NoError]

\* Faulty variant: the catch of the loop starts the list of outcomes anew
RecordIndividualForgets(res, file, resp) ==
  IF Ok(resp)
    THEN [res EXCEPT
            !.processed = @ + 1,
            !.succeeded = @ + 1,
            !.operations = Append(@, Outcome(file, "success", NoFailure))]
    ELSE [res EXCEPT
            !.processed = @ + 1,
            !.failed = @ + 1,
            !.operations =
              <<Outcome(file, "failed",
                        [kind |-> IF resp.status = 0 THEN "exception"
                                  ELSE "status",
                         status |-> resp.status])>>]

\* Faulty variant: the catch of the loop records nothing
RecordIndividualSwallows(res, file, resp) ==
  IF Ok(resp)
    THEN [res EXCEPT
            !.processed = @ + 1,
            !.succeeded = @ + 1,
            !.operations = Append(@, Outcome(file, "success", NoFailure))]
    ELSE [res EXCEPT !.processed = @ + 1]

\* Faulty variant: a failure marks the outcomes recorded before it as failed
RecordIndividualRewrites(res, file, resp) ==
  IF Ok(resp)
    THEN [res EXCEPT
            !.processed = @ + 1,
            !.succeeded = @ + 1,
            !.operations = Append(@, Outcome(file, "success", NoFailure))]
    ELSE [res EXCEPT
            !.processed = @ + 1,
            !.failed = @ + 1,
            !.operations =
              Append([k \in DOMAIN @ |-> [@[k] EXCEPT !.status = "failed"]],
                     Outcome(file, "failed",
                             [kind |-> IF resp.status = 0 THEN "exception"
                                       ELSE "status",
                              status |-> resp.status]))]

\* Faulty variant: a write the store rejected with 422 counts as a success
RecordIndividualConflictOk(res, file, resp) ==
  IF Ok(resp) \/ resp.status = 422
    THEN [res EXCEPT
            !.processed = @ + 1,
            !.succeeded = @ + 1,
            !.operations = Append(@, Outcome(file, "success", NoFailure))]
    ELSE [res EXCEPT
            !.processed = @ + 1,
            !.failed = @ + 1,
            !.operations =
              Append(@, Outcome(file, "failed",
                                [kind |-> IF resp.status = 0 THEN "exception"
                                          ELSE "status",
                                 status |-> resp.status]))]

\* executeIndividualUpdates: what one turn of the loop does to the result
\* object, given the response of its write call.  A response that is not ok
\* makes the operation throw `${status}: ${text}`, a fetch that threw throws
\* its own error; the catch of the loop records either as a failed outcome.
RecordIndividual(res, file, resp) ==
  IF Ok(resp)
    THEN [res EXCEPT
            !.processed = @ + 1,
            !.succeeded = @ + 1,
            !.operations = Append(@, Outcome(file, "success", NoFailure))]
    ELSE [res EXCEPT
            !.processed = @ + 1,
            !.failed = @ + 1,
            !.operations =
              Append(@, Outcome(file, "failed",
                                [kind |-> IF resp.status = 0 THEN "exception"
                                          ELSE "status",
                                 status |-> resp.status]))]

\* Faulty variant: a batch that failed marks its first operation only
RecordBatchFirstOnly(res, files, resp) ==
  IF Ok(resp)
    THEN [res EXCEPT
            !.processed = Len(files),
            !.succeeded = Len(files),
            !.operations =
              [n \in 1..Len(files) |-> Outcome(files[n], "success", NoFailure)]]
    ELSE [res EXCEPT
            !.processed = Len(files),
            !.failed = 1,
            !.succeeded = Len(files) - 1,
            !.operations =
              [n \in 1..Len(files) |->
                 IF n = 1
                   THEN Outcome(files[n], "failed",
                          [kind |-> IF resp.status = 0
                                      THEN "Batch operation error"
                                      ELSE "Batch operation failed",
                           status |-> resp.status])
                   ELSE Outcome(files[n], "success", NoFailure)]]

\* Faulty variant: a batch that failed counts one failure
RecordBatchFailedOnce(res, files, resp) ==
  IF Ok(resp)
    THEN [res EXCEPT
            !.processed = Len(files),
            !.succeeded = Len(files),
            !.operations =
              [n \in 1..Len(files) |-> Outcome(files[n], "success", NoFailure)]]
    ELSE [res EXCEPT
            !.processed = Len(files),
            !.failed = 1,
            !.operations =
              [n \in 1..Len(files) |->
                 Outcome(files[n], "failed",
                   [kind |-> IF resp.status = 0 THEN "Batch operation error"
                             ELSE "Batch operation failed",
                    status |-> resp.status])]]

\* Faulty variant: the outcomes of a batch are recorded last file first
RecordBatchReversed(res, files, resp) ==
  [res EXCEPT
     !.processed = Len(files),
     !.succeeded = IF Ok(resp) THEN Len(files) ELSE 0,
     !.failed = IF Ok(resp) THEN 0 ELSE Len(files),
     !.operations =
       [n \in 1..Len(files) |->
          Outcome(files[Len(files) + 1 - n],
                  IF Ok(resp) THEN "success" ELSE "failed",
                  IF Ok(resp) THEN NoFailure
                  ELSE [kind |-> IF resp.status = 0
                                   THEN "Batch operation error"
                                   ELSE "Batch operation failed",
                        status |-> resp.status])]]

\* executeBatchUpdate: what the response of the one POST does to the result
\* object
RecordBatch(res, files, resp) ==
  IF Ok(resp)
    THEN [res EXCEPT
            !.processed = Len(files),
            !.succeeded = Len(files),
            !.operations =
              [n \in 1..Len(files) |-> Outcome(files[n], "success", NoFailure)]]
    ELSE [res EXCEPT
            !.processed = Len(files),
            !.failed = Len(files),
            !.operations =
              [n \in 1..Len(files) |->
                 Outcome(files[n], "failed",
                   [kind |-> IF resp.status = 0 THEN "Batch operation error"
                             ELSE "Batch operation failed",
                    status |-> resp.status])]]

\* the catch of the handler: every error that is no ZodError is rethrown as
\* an AppError with code EXTERNAL_API_ERROR
CatchCode(err) ==
  IF err.class = "ZodError" THEN "VALIDATION_ERROR" ELSE "EXTERNAL_API_ERROR"

ErrorResponse(err) ==
  [NoResponse EXCEPT !.kind = "error", !.code = CatchCode(err), !.cause = err]

\* Faulty variant: only the first record is validated
ThrownAtStartFirstRecord(a) ==
  IF a.files = <<>> THEN PlainError
  ELSE IF a.instanceId \notin ConfiguredInstances THEN PlainError
  ELSE FileError(a.files[1])

\* The error the handler throws before any network call, or NoError
ThrownAtStart(a) ==
  IF a.files = <<>> THEN PlainError
  ELSE IF a.instanceId \notin ConfiguredInstances THEN PlainError
  ELSE IF FirstInvalid(a.files) # 0 THEN FileError(a.files[FirstInvalid(a.files)])
  ELSE NoError

\* Faulty variant: the detectChanges argument is ignored
DetectAlways(a) == TRUE

\* Faulty variant: a dry run does not probe
DetectUnlessDryRun(a) == a.detectChanges /\ ~a.dryRun

\* Faulty variant: with conflictResolution 'overwrite' the remote is not probed
DetectUnlessOverwrite(a) ==
  a.detectChanges /\ a.conflictResolution # "overwrite"

\* params.detectChanges
DetectEnabled(a) == a.detectChanges

\* Faulty variant: the dryRun argument is ignored
DryRunIgnored(a) == FALSE

\* params.dryRun
DryRun(a) == a.dryRun

\* The plan as FileOperation objects
Plan == [n \in 1..Len(needsUpdate) |-> normalizedFiles[needsUpdate[n]]]

\* An entry of the call history: the request (method, path and, from the body,
\* sha, content and files), its response, and ops, the files of
\* normalizedFiles (indexes) the request was made for
Call(method, ops, p, sh, c, files, r) ==
  [method |-> method, ops |-> ops, path |-> p, sha |-> sh, content |-> c,
   files |-> files, resp |-> r]

(***************************************************************************)
(* Initial states: a call with some arguments against some remote branch   *)
(***************************************************************************)
\* conflictResolution is 'fail' when the caller gives none
Args(inst, files, strat, detect, dry) ==
  [instanceId |-> inst, files |-> files, strategy |-> strat,
   conflictResolution |-> "fail", detectChanges |-> detect, dryRun |-> dry]

ArgsSet ==
  {Args("main", f, s, d, r) :
     f \in SeqsUpTo(RawFiles, MaxFiles), s \in Strategies,
     d \in BOOLEAN, r \in BOOLEAN}
    \cup {Args("other", <<f>>, "auto", TRUE, FALSE) : f \in RawFiles}

Stores == [Paths -> {AbsentFile} \cup {StoredFile(c) : c \in Contents}]

InitWith(argsSet) ==
  /\ args \in argsSet
  /\ store \in Stores
  /\ pc = "start"
  /\ normalizedFiles = <<>>
  /\ needsUpdate = <<>>
  /\ i = 1
  /\ j = 1
  /\ strategy = ""
  /\ executor = ""
  /\ result = NewResult(0, 0, 0)
  /\ response = NoResponse
  /\ calls = <<>>
  /\ run = 1
  /\ first = NoResponse

Init == InitWith(ArgsSet)

(***************************************************************************)
(* The handler of sync_update                                              *)
(***************************************************************************)
\* Parameter checks, instance lookup and validateAndNormalizeFiles.  An error
\* thrown here is caught by the handler's catch and rethrown to the caller.
Start ==
  /\ pc = "start"
  /\ IF ThrownAtStart(args) # NoError
       THEN /\ response' = ErrorResponse(ThrownAtStart(args))
            /\ pc' = "returned"
            /\ UNCHANGED <<normalizedFiles, needsUpdate>>
       ELSE /\ normalizedFiles' = validateAndNormalizeFiles(args.files)
            /\ IF DetectEnabled(args)
                 THEN /\ needsUpdate' = <<>>
                      /\ pc' = "detect"
                 ELSE /\ needsUpdate' = [n \in 1..Len(args.files) |-> n]
                      /\ pc' = "select"
            /\ UNCHANGED response
  /\ i' = 1
  /\ UNCHANGED <<args, store, j, strategy, executor, result, calls, run, first>>

\* detectChangesNeeded: one turn of the loop, the GET and what is done with
\* its response.  The map remoteFiles is filled here and read nowhere, so it
\* is left out.
Probe ==
  /\ pc = "detect"
  /\ i <= Len(normalizedFiles)
  /\ \E r \in ProbeResponses(store, normalizedFiles[i].path) :
       LET d == detectOne(normalizedFiles[i], r) IN
         /\ normalizedFiles' = [normalizedFiles EXCEPT ![i] = d.file]
         /\ needsUpdate' = IF d.push THEN Append(needsUpdate, i) ELSE needsUpdate
         /\ calls' = Append(calls, Call("GET", <<i>>, normalizedFiles[i].path,
                                        None, None, <<>>, r))
  /\ i' = i + 1
  /\ UNCHANGED <<args, store, pc, j, strategy, executor, result, response,
                 run, first>>

\* determineStrategy, the result object, and either the dry-run return or the
\* choice of the executor
Select ==
  /\ \/ pc = "select"
     \/ pc = "detect" /\ i > Len(normalizedFiles)
  /\ strategy' = determineStrategy(args.strategy, Plan)
  /\ IF DryRun(args)
       THEN /\ result' =
                 [NewResult(Len(args.files), Len(normalizedFiles), Len(Plan))
                    EXCEPT !.operations =
                      [n \in 1..Len(Plan) |->
                         Outcome(Plan[n], "would-execute", NoFailure)]]
            /\ response' =
                 [NoResponse EXCEPT
                    !.kind = "dryRun",
                    !.strategy = strategy',
                    !.summary = result',
                    !.filesNeedingUpdate =
                      [n \in 1..Len(Plan) |->
                         [path |-> Plan[n].path,
                          operation |-> Plan[n].operation,
                          hasRemoteSha |-> Plan[n].sha # None]]]
            /\ pc' = "returned"
            /\ UNCHANGED executor
       ELSE /\ result' =
                 NewResult(Len(args.files), Len(normalizedFiles), Len(Plan))
            /\ executor' = ChooseExecutor(strategy', Plan)
            /\ pc' = executor'
            /\ UNCHANGED response
  /\ j' = 1
  /\ UNCHANGED <<args, store, normalizedFiles, needsUpdate, i, calls, run, first>>

\* executeIndividualUpdates: one turn of the loop, the write call of one file
\* and the outcome recorded for it
Individual ==
  /\ pc = "individual"
  /\ j <= Len(Plan)
  /\ LET file == Plan[j]
         ch == IndividualChange(file)
     IN \E o \in WriteOutcomes(store, StoreWrite(store, ch)) :
          /\ store' = o.store
          /\ calls' = Append(calls, Call(IndividualMethod(file), <<needsUpdate[j]>>,
                                         ch.path, ch.sha, ch.content, <<>>,
                                         o.resp))
          /\ result' = RecordIndividual(result, file, o.resp)
  /\ j' = j + 1
  /\ UNCHANGED <<args, pc, normalizedFiles, needsUpdate, i, strategy, executor,
                 response, run, first>>

\* executeBatchUpdate: the one POST of all changes and the outcomes
Batch ==
  /\ pc = "batch"
  /\ LET chs == [n \in 1..Len(Plan) |-> BatchChange(Plan[n])]
     IN \E o \in WriteOutcomes(store, StoreBatch(store, store, chs)) :
          /\ store' = o.store
          /\ calls' = Append(calls, Call("POST", needsUpdate, None, None, None, chs,
                                         o.resp))
          /\ result' = RecordBatch(result, Plan, o.resp)
  /\ pc' = "finish"
  /\ UNCHANGED <<args, normalizedFiles, needsUpdate, i, j, strategy, executor,
                 response, run, first>>

\* The return of the handler after the executor
Return ==
  /\ \/ pc = "finish"
     \/ pc = "individual" /\ j > Len(Plan)
  /\ response' =
       [NoResponse EXCEPT
          !.kind = "result",
          !.success = (result.failed = 0),
          !.strategy = strategy,
          !.summary = result]
  /\ pc' = "returned"
  /\ UNCHANGED <<args, store, normalizedFiles, needsUpdate, i, j, strategy,
                 executor, result, calls, run, first>>

Next == Start \/ Probe \/ Select \/ Individual \/ Batch \/ Return

Spec == Init /\ [][Next]_vars

\* The handler is one async function whose awaits all settle (every fetch
\* returns a response or throws): a step that can be taken is taken.  The
\* calls are those whose records carry no sha of the caller.
ArgsFair ==
  {a \in ArgsSet : \A n \in DOMAIN a.files : a.files[n].sha = None}

InitFair == InitWith(ArgsFair)

SpecFair == InitFair /\ [][Next]_vars /\ WF_vars(Next)

(***************************************************************************)
(* The same call submitted a second time: the caller, having received a    *)
(* summary that reports success, sends the same arguments again.  No other *)
(* client writes to the branch in between.                                 *)
(***************************************************************************)
Rerun ==
  /\ pc = "returned"
  /\ run = 1
  /\ response.kind = "result"
  /\ response.success
  /\ first' = response
  /\ run' = 2
  /\ pc' = "start"
  /\ normalizedFiles' = <<>>
  /\ needsUpdate' = <<>>
  /\ i' = 1
  /\ j' = 1
  /\ strategy' = ""
  /\ executor' = ""
  /\ result' = NewResult(0, 0, 0)
  /\ response' = NoResponse
  /\ calls' = <<>>
  /\ UNCHANGED <<args, store>>

\* Calls that get as far as their summary: valid files, known instance,
\* change detection on, no dry run
ArgsTwice ==
  {Args("main", f, s, TRUE, FALSE) :
     f \in SeqsUpTo(ValidRawFiles, MaxFiles) \ {<<>>}, s \in Strategies}

InitTwice == InitWith(ArgsTwice)

NextTwice == Next \/ Rerun

SpecTwice == InitTwice /\ [][NextTwice]_vars

(***************************************************************************)
(* A dry run followed by the call itself: the caller, having received the  *)
(* report of a dry run, sends the same arguments with dryRun=false.  No    *)
(* other client writes to the branch in between.  The history of calls is  *)
(* kept, so that it holds the probes of both runs.                         *)
(***************************************************************************)
RunForReal ==
  /\ pc = "returned"
  /\ run = 1
  /\ response.kind = "dryRun"
  /\ args' = [args EXCEPT !.dryRun = FALSE]
  /\ first' = response
  /\ run' = 2
  /\ pc' = "start"
  /\ normalizedFiles' = <<>>
  /\ needsUpdate' = <<>>
  /\ i' = 1
  /\ j' = 1
  /\ strategy' = ""
  /\ executor' = ""
  /\ result' = NewResult(0, 0, 0)
  /\ response' = NoResponse
  /\ UNCHANGED <<store, calls>>

\* Dry runs that get as far as their report: valid files, known instance
ArgsDry ==
  {Args("main", f, s, d, TRUE) :
     f \in SeqsUpTo(ValidRawFiles, MaxFiles) \ {<<>>}, s \in Strategies,
     d \in BOOLEAN}

InitDry == InitWith(ArgsDry)

NextDry == Next \/ RunForReal

SpecDry == InitDry /\ [][NextDry]_vars

(***************************************************************************)
(* Calls whose first record has any path a caller may write, against a     *)
(* branch on which no file exists yet                                      *)
(***************************************************************************)
ArgsPaths ==
  {Args("main", <<RawFile(p, X, "add", None)>> \o more, s, d, FALSE) :
     p \in PathStrings,
     more \in {<<>>, <<RawFile(A, Y, "modify", None)>>},
     s \in {"auto", "individual"},
     d \in BOOLEAN}

InitPaths ==
  /\ args \in ArgsPaths
  /\ store = [p \in {ReplaceBackslashes(q) : q \in PathStrings} |-> AbsentFile]
  /\ pc = "start"
  /\ normalizedFiles = <<>>
  /\ needsUpdate = <<>>
  /\ i = 1
  /\ j = 1
  /\ strategy = ""
  /\ executor = ""
  /\ result = NewResult(0, 0, 0)
  /\ response = NoResponse
  /\ calls = <<>>
  /\ run = 1
  /\ first = NoResponse

SpecPaths == InitPaths /\ [][Next]_vars

(***************************************************************************)
(* The handler with each fetch in two steps: the request is issued, the    *)
(* handler is suspended at its await, and the response (or the exception)  *)
(* resumes it.  The entry of a request in the history has the response     *)
(* Pending until then; the store serves the request when it answers.       *)
(***************************************************************************)
Pending == Response(-1, None, None)

\* Faulty variant: the fetch is not awaited
NotAwaiting(phase) == phase

\* await fetch(...): where the handler is suspended after issuing a request
Awaiting(phase) ==
  IF phase = "detect" THEN "probing"
  ELSE IF phase = "individual" THEN "writing"
  ELSE "committing"

\* The last entry of the history gets its response
Answered(cs, r) == [cs EXCEPT ![Len(cs)].resp = r]

IssueProbe ==
  /\ pc = "detect"
  /\ i <= Len(normalizedFiles)
  /\ calls' = Append(calls, Call("GET", <<i>>, normalizedFiles[i].path,
                                 None, None, <<>>, Pending))
  /\ pc' = Awaiting("detect")
  /\ UNCHANGED <<args, store, normalizedFiles, needsUpdate, i, j, strategy,
                 executor, result, response, run, first>>

CompleteProbe ==
  /\ pc = "probing"
  /\ \E r \in ProbeResponses(store, normalizedFiles[i].path) :
       LET d == detectOne(normalizedFiles[i], r) IN
         /\ normalizedFiles' = [normalizedFiles EXCEPT ![i] = d.file]
         /\ needsUpdate' = IF d.push THEN Append(needsUpdate, i) ELSE needsUpdate
         /\ calls' = Answered(calls, r)
  /\ i' = i + 1
  /\ pc' = "detect"
  /\ UNCHANGED <<args, store, j, strategy, executor, result, response,
                 run, first>>

IssueWrite ==
  /\ pc = "individual"
  /\ j <= Len(Plan)
  /\ LET file == Plan[j]
         ch == IndividualChange(file)
     IN calls' = Append(calls, Call(IndividualMethod(file), <<needsUpdate[j]>>,
                                    ch.path, ch.sha, ch.content, <<>>, Pending))
  /\ pc' = Awaiting("individual")
  /\ UNCHANGED <<args, store, normalizedFiles, needsUpdate, i, j, strategy,
                 executor, result, response, run, first>>

CompleteWrite ==
  /\ pc = "writing"
  /\ \E o \in WriteOutcomes(store, StoreWrite(store, IndividualChange(Plan[j]))) :
       /\ store' = o.store
       /\ calls' = Answered(calls, o.resp)
       /\ result' = RecordIndividual(result, Plan[j], o.resp)
  /\ j' = j + 1
  /\ pc' = "individual"
  /\ UNCHANGED <<args, normalizedFiles, needsUpdate, i, strategy, executor,
                 response, run, first>>

IssueBatch ==
  /\ pc = "batch"
  /\ calls' = Append(calls, Call("POST", needsUpdate, None, None, None,
                                 [n \in 1..Len(Plan) |-> BatchChange(Plan[n])],
                                 Pending))
  /\ pc' = Awaiting("batch")
  /\ UNCHANGED <<args, store, normalizedFiles, needsUpdate, i, j, strategy,
                 executor, result, response, run, first>>

CompleteBatch ==
  /\ pc = "committing"
  /\ LET chs == [n \in 1..Len(Plan) |-> BatchChange(Plan[n])]
     IN \E o \in WriteOutcomes(store, StoreBatch(store, store, chs)) :
          /\ store' = o.store
          /\ calls' = Answered(calls, o.resp)
          /\ result' = RecordBatch(result, Plan, o.resp)
  /\ pc' = "finish"
  /\ UNCHANGED <<args, normalizedFiles, needsUpdate, i, j, strategy, executor,
                 response, run, first>>

NextWire ==
  \/ Start \/ IssueProbe \/ CompleteProbe \/ Select
  \/ IssueWrite \/ CompleteWrite \/ IssueBatch \/ CompleteBatch \/ Return

SpecWire == InitFair /\ [][NextWire]_vars

(***************************************************************************)
(* One call, and then the same call with another conflictResolution        *)
(* against the branch as it was before the first one.  Here first holds    *)
(* what is kept of the first call: the branch it started from, and its     *)
(* calls and its response once it has returned.                            *)
(***************************************************************************)
ConflictResolutions == {"fail", "overwrite", "skip"}

\* Calls with change detection and the default strategy, on records that
\* carry no sha of the caller
RawFilesModes ==
  {RawFile(A, X, "add", None), RawFile(Bback, X, "add", None),
   RawFile(A, X, "modify", None), RawFile(A, Y, "modify", None),
   RawFile(Bback, X, "modify", None),
   RawFile(A, None, "delete", None), RawFile(Bback, None, "delete", None)}

ArgsModes ==
  {Args("main", f, "auto", TRUE, FALSE) :
     f \in SeqsUpTo(RawFilesModes, MaxFiles) \ {<<>>}}

Kept(st, cs, resp) == [store |-> st, calls |-> cs, response |-> resp]

InitModes ==
  /\ args \in ArgsModes
  /\ store \in Stores
  /\ pc = "start"
  /\ normalizedFiles = <<>>
  /\ needsUpdate = <<>>
  /\ i = 1
  /\ j = 1
  /\ strategy = ""
  /\ executor = ""
  /\ result = NewResult(0, 0, 0)
  /\ response = NoResponse
  /\ calls = <<>>
  /\ run = 1
  /\ first = Kept(store, <<>>, NoResponse)

RunOtherMode ==
  /\ pc = "returned"
  /\ run = 1
  /\ \E m \in ConflictResolutions \ {args.conflictResolution} :
       args' = [args EXCEPT !.conflictResolution = m]
  /\ first' = Kept(first.store, calls, response)
  /\ store' = first.store
  /\ run' = 2
  /\ pc' = "start"
  /\ normalizedFiles' = <<>>
  /\ needsUpdate' = <<>>
  /\ i' = 1
  /\ j' = 1
  /\ strategy' = ""
  /\ executor' = ""
  /\ result' = NewResult(0, 0, 0)
  /\ response' = NoResponse
  /\ calls' = <<>>

NextModes == Next \/ RunOtherMode

SpecModes == InitModes /\ [][NextModes]_vars

(***************************************************************************)
(* Two calls of the handler at the same time against one branch.  Node     *)
(* runs the two async handlers interleaved at their awaits, so a step of   *)
(* one call (a fetch together with what follows its response) is taken     *)
(* between the steps of the other.  The variables of the handler hold one  *)
(* value per call; store and the history are shared.  Each call modifies   *)
(* or deletes the one path A, which exists.                                *)
(***************************************************************************)
CallIds == {1, 2}

RawFilesRace ==
  {RawFile(A, X, "modify", None), RawFile(A, Y, "modify", None),
   RawFile(A, None, "delete", None)}

ArgsRace == {Args("main", <<f>>, "auto", TRUE, FALSE) : f \in RawFilesRace}

StoresRace == {st \in Stores : st[A].exists /\ ~st[B].exists}

\* The token of a write is stale: an update or a delete of a path that holds
\* no file, or a file with another sha (a create carries no token)
Stale(st, ch) ==
  /\ ch.operation \in {"update", "delete"}
  /\ ~st[ch.path].exists \/ ch.sha # Sha(st[ch.path].content)

\* An entry of the shared history: the call it belongs to, the request, the
\* response, and for a write whether its token was stale when the store got
\* it and whether the store applied it
RaceCall(c, method, ops, p, sh, r, stale, applied) ==
  [call |-> c, method |-> method, ops |-> ops, path |-> p, sha |-> sh,
   resp |-> r, stale |-> stale, applied |-> applied]

InitRace ==
  /\ args \in [CallIds -> ArgsRace]
  /\ store \in StoresRace
  /\ pc = [c \in CallIds |-> "start"]
  /\ normalizedFiles = [c \in CallIds |-> <<>>]
  /\ needsUpdate = [c \in CallIds |-> <<>>]
  /\ i = [c \in CallIds |-> 1]
  /\ j = [c \in CallIds |-> 1]
  /\ strategy = [c \in CallIds |-> ""]
  /\ executor = [c \in CallIds |-> ""]
  /\ result = [c \in CallIds |-> NewResult(0, 0, 0)]
  /\ response = [c \in CallIds |-> NoResponse]
  /\ calls = <<>>
  /\ run = 1
  /\ first = NoResponse

PlanOf(c) ==
  [n \in 1..Len(needsUpdate[c]) |-> normalizedFiles[c][needsUpdate[c][n]]]

StartOf(c) ==
  /\ pc[c] = "start"
  /\ ThrownAtStart(args[c]) = NoError
  /\ DetectEnabled(args[c])
  /\ normalizedFiles' =
       [normalizedFiles EXCEPT ![c] = validateAndNormalizeFiles(args[c].files)]
  /\ pc' = [pc EXCEPT ![c] = "detect"]
  /\ UNCHANGED <<args, store, needsUpdate, i, j, strategy, executor, result,
                 response, calls, run, first>>

ProbeOf(c) ==
  /\ pc[c] = "detect"
  /\ i[c] <= Len(normalizedFiles[c])
  /\ \E r \in ProbeResponses(store, normalizedFiles[c][i[c]].path) :
       LET d == detectOne(normalizedFiles[c][i[c]], r) IN
         /\ normalizedFiles' = [normalizedFiles EXCEPT ![c][i[c]] = d.file]
         /\ needsUpdate' =
              IF d.push THEN [needsUpdate EXCEPT ![c] = Append(@, i[c])]
              ELSE needsUpdate
         /\ calls' = Append(calls,
                            RaceCall(c, "GET", <<i[c]>>,
                                     normalizedFiles[c][i[c]].path, None, r,
                                     FALSE, FALSE))
  /\ i' = [i EXCEPT ![c] = @ + 1]
  /\ UNCHANGED <<args, store, pc, j, strategy, executor, result, response,
                 run, first>>

SelectOf(c) ==
  /\ pc[c] = "detect"
  /\ i[c] > Len(normalizedFiles[c])
  /\ ~DryRun(args[c])
  /\ strategy' =
       [strategy EXCEPT ![c] = determineStrategy(args[c].strategy, PlanOf(c))]
  /\ result' =
       [result EXCEPT ![c] = NewResult(Len(args[c].files),
                                       Len(normalizedFiles[c]),
                                       Len(PlanOf(c)))]
  /\ executor' =
       [executor EXCEPT ![c] = ChooseExecutor(strategy'[c], PlanOf(c))]
  /\ executor'[c] = "individual"
  /\ pc' = [pc EXCEPT ![c] = "individual"]
  /\ UNCHANGED <<args, store, normalizedFiles, needsUpdate, i, j, response,
                 calls, run, first>>

WriteOf(c) ==
  /\ pc[c] = "individual"
  /\ j[c] <= Len(PlanOf(c))
  /\ LET file == PlanOf(c)[j[c]]
         ch == IndividualChange(file)
     IN \E o \in WriteOutcomes(store, StoreWrite(store, ch)) :
          /\ store' = o.store
          /\ calls' = Append(calls,
                             RaceCall(c, IndividualMethod(file),
                                      <<needsUpdate[c][j[c]]>>, ch.path, ch.sha,
                                      o.resp, Stale(store, ch),
                                      o.store # store))
          /\ result' = [result EXCEPT
                          ![c] = RecordIndividual(@, file, o.resp)]
  /\ j' = [j EXCEPT ![c] = @ + 1]
  /\ UNCHANGED <<args, pc, normalizedFiles, needsUpdate, i, strategy, executor,
                 response, run, first>>

ReturnOf(c) ==
  /\ pc[c] = "individual"
  /\ j[c] > Len(PlanOf(c))
  /\ response' =
       [response EXCEPT
          ![c] = [NoResponse EXCEPT
                    !.kind = "result",
                    !.success = (result[c].failed = 0),
                    !.strategy = strategy[c],
                    !.summary = result[c]]]
  /\ pc' = [pc EXCEPT ![c] = "returned"]
  /\ UNCHANGED <<args, store, normalizedFiles, needsUpdate, i, j, strategy,
                 executor, result, calls, run, first>>

NextRace ==
  \E c \in CallIds :
    StartOf(c) \/ ProbeOf(c) \/ SelectOf(c) \/ WriteOf(c) \/ ReturnOf(c)

SpecRace == InitRace /\ [][NextRace]_vars

(***************************************************************************)
(* create_repository, in its two handlers: the tool module                 *)
(* (src/tools/create-repository.ts) and GiteaMcpServer                     *)
(* .handleCreateRepository, the one the server's main wires up.  Booleans  *)
(* of the arguments are "true" and "false", an argument that is not given  *)
(* is "undefined" (strings: None).  pc tells which handler serves the call.*)
(***************************************************************************)
Undefined == "undefined"
OptionalBooleans == {Undefined, "true", "false"}
RepoNames == {None, <<" ">>, <<"r">>}
Branches == {None, <<"m", "a", "i", "n">>, <<"d", "e", "v">>}
Handlers == {"tool", "class"}

RepoArgs(inst, name, priv, auto, branch) ==
  [instanceId |-> inst, name |-> name, description |-> None,
   private |-> priv, autoInit |-> auto, defaultBranch |-> branch]

\* x !== undefined ? x : d
OrDefault(x, d) == IF x # Undefined THEN x ELSE d

\* s.trim().length === 0
Blank(s) == \A n \in DOMAIN s : s[n] = " "

\* The request body of the tool module (lines 70-77 and 100-106)
ToolRequestBody(a) ==
  [name |-> a.name,
   description |-> a.description,
   private |-> OrDefault(a.private, "true"),
   auto_init |-> OrDefault(a.autoInit, "true"),
   default_branch |-> IF a.defaultBranch = None THEN <<"m", "a", "i", "n">>
                      ELSE a.defaultBranch]

\* The request body of GiteaMcpServer.handleCreateRepository
ClassRequestBody(a) ==
  [name |-> a.name,
   description |-> a.description,
   private |-> OrDefault(a.private, "false"),
   auto_init |-> OrDefault(a.autoInit, "true"),
   default_branch |-> IF a.defaultBranch = None THEN <<"m", "a", "i", "n">>
                      ELSE a.defaultBranch]

\* POST /user/repos: created, refused, or fetch threw
RepoResponses ==
  {Response(201, None, None), Response(409, None, None),
   Response(0, None, None)}

RepoCall(body, r) == [method |-> "POST", body |-> body, resp |-> r]

InitRepo ==
  /\ args \in {RepoArgs(inst, n, p, a, b) :
                 inst \in {"main", "other"}, n \in RepoNames,
                 p \in OptionalBooleans, a \in OptionalBooleans,
                 b \in Branches}
  /\ pc \in Handlers
  /\ store = [p \in Paths |-> AbsentFile]
  /\ normalizedFiles = <<>>
  /\ needsUpdate = <<>>
  /\ i = 1
  /\ j = 1
  /\ strategy = ""
  /\ executor = ""
  /\ result = NewResult(0, 0, 0)
  /\ response = NoResponse
  /\ calls = <<>>
  /\ run = 1
  /\ first = NoResponse

\* The handler of the tool module: it checks instanceId and name, looks the
\* instance up, posts, and throws an McpError for every failure
ToolCreateRepository ==
  /\ pc = "tool"
  /\ IF Blank(args.name) \/ args.instanceId \notin ConfiguredInstances
       THEN /\ response' = [NoResponse EXCEPT !.kind = "error",
                                              !.code = "InvalidParams"]
            /\ UNCHANGED calls
       ELSE \E r \in RepoResponses :
              /\ calls' = Append(calls, RepoCall(ToolRequestBody(args), r))
              /\ response' =
                   IF Ok(r)
                     THEN [NoResponse EXCEPT !.kind = "result",
                                             !.success = TRUE]
                     ELSE [NoResponse EXCEPT !.kind = "error",
                                             !.code = "InternalError"]
  /\ pc' = "returned"
  /\ UNCHANGED <<args, store, normalizedFiles, needsUpdate, i, j, strategy,
                 executor, result, run, first>>

\* GiteaMcpServer.handleCreateRepository: it looks the instance up, posts,
\* and returns an isError result for every failure
ClassCreateRepository ==
  /\ pc = "class"
  /\ IF args.instanceId \notin ConfiguredInstances
       THEN /\ response' = [NoResponse EXCEPT !.kind = "isError",
                                              !.code = "InvalidParams"]
            /\ UNCHANGED calls
       ELSE \E r \in RepoResponses :
              /\ calls' = Append(calls, RepoCall(ClassRequestBody(args), r))
              /\ response' =
                   IF Ok(r)
                     THEN [NoResponse EXCEPT !.kind = "result",
                                             !.success = TRUE]
                     ELSE [NoResponse EXCEPT !.kind = "isError"]
  /\ pc' = "returned"
  /\ UNCHANGED <<args, store, normalizedFiles, needsUpdate, i, j, strategy,
                 executor, result, run, first>>

NextRepo == ToolCreateRepository \/ ClassCreateRepository

SpecRepo == InitRepo /\ [][NextRepo]_vars

(***************************************************************************)
(* GiteaMcpServer.handleSyncUpdate, the sync_update of the server class,   *)
(* with the private methods it calls.  It is run after the handler of the  *)
(* tool module, with the same arguments and against the branch as it was   *)
(* before; first holds what is kept of the tool module's call.             *)
(***************************************************************************)
McpInvalidParams == [class |-> "McpError", code |-> "InvalidParams"]

\* The error the map callback of validateAndNormalizeFiles throws for one
\* record, or NoError; all of them are plain errors
ServerFileError(file) ==
  IF Falsy(file.path) THEN PlainError
  ELSE IF OperationOf(file) \notin {"add", "modify", "delete"} THEN PlainError
  ELSE IF OperationOf(file) \in {"add", "modify"} /\ Falsy(file.content)
    THEN PlainError
  ELSE IF IncludesDotDot(ReplaceBackslashes(file.path))
          \/ StartsWithSlash(ReplaceBackslashes(file.path))
    THEN PlainError
  ELSE NoError

ServerNormalizeFile(file) ==
  [path |-> ReplaceBackslashes(file.path),
   content |-> file.content,
   operation |-> OperationOf(file),
   sha |-> file.sha]

ServerValidateAndNormalizeFiles(files) ==
  [n \in 1..Len(files) |-> ServerNormalizeFile(files[n])]

\* The error handleSyncUpdate throws before any network call, or NoError
ServerThrownAtStart(a) ==
  IF a.files = <<>> THEN PlainError
  ELSE IF a.instanceId \notin ConfiguredInstances THEN McpInvalidParams
  ELSE IF \E n \in 1..Len(a.files) : ServerFileError(a.files[n]) # NoError
    THEN PlainError
  ELSE NoError

\* the catch of handleSyncUpdate returns a result with isError
ServerErrorResponse(err) ==
  [NoResponse EXCEPT !.kind = "isError", !.cause = err]

\* detectChangesNeeded: the body of the loop for one file and one response
ServerDetectOne(file, r) ==
  IF Ok(r)
    THEN [file |-> IF file.operation \in {"modify", "delete"}
                     THEN [file EXCEPT !.sha = r.sha]
                     ELSE file,
          push |-> ~(file.operation = "modify"
                     /\ file.content = Base64Decode(r.content))]
  ELSE IF r.status = 404
    THEN IF file.operation = "add" THEN [file |-> file, push |-> TRUE]
         ELSE IF file.operation = "modify"
           THEN [file |-> [file EXCEPT !.operation = "add", !.sha = None],
                 push |-> TRUE]
         ELSE [file |-> file, push |-> FALSE]
  ELSE [file |-> file, push |-> TRUE]

ServerDetermineStrategy(requestedStrategy, files) ==
  IF requestedStrategy # "auto" THEN requestedStrategy
  ELSE IF Len(files) = 1 THEN "individual"
  ELSE IF \E n \in 1..Len(files) : files[n].operation = "delete"
    THEN "individual"
  ELSE "batch"

\* Faulty variant: a plan of one operation is committed as a batch
ServerChooseExecutorOfOne(strat, files) ==
  IF strat = "batch" /\ Len(files) >= 1 THEN "batch" ELSE "individual"

ServerChooseExecutor(strat, files) ==
  IF strat = "batch" /\ Len(files) > 1 THEN "batch" ELSE "individual"

ServerIndividualMethod(file) ==
  IF file.operation = "delete" THEN "DELETE"
  ELSE IF file.operation = "add" THEN "POST"
  ELSE "PUT"

ServerIndividualChange(file) ==
  IF file.operation = "delete"
    THEN FileChange("delete", file.path, None, file.sha)
  ELSE IF file.operation = "add"
    THEN FileChange("create", file.path, Base64Encode(file.content), None)
  ELSE FileChange("update", file.path, Base64Encode(file.content), file.sha)

ServerBatchChange(file) ==
  IF file.operation = "delete"
    THEN FileChange("delete", file.path, None, file.sha)
  ELSE FileChange(IF file.operation = "modify" THEN "update" ELSE "create",
                  file.path, Base64Encode(file.content),
                  IF file.operation = "modify" THEN file.sha ELSE None)

ServerNewResult(nFiles, nNormalized, nPlan) ==
  [discovered |-> nFiles, analyzed |-> nNormalized, needsUpdate |-> nPlan,
   processed |-> 0, succeeded |-> 0, failed |-> 0, skipped |-> 0,
   operations |-> <<>>, conflicts |-> <<>>, unchanged |-> <<>>]

ServerRecordIndividual(res, file, resp) ==
  IF Ok(resp)
    THEN [res EXCEPT
            !.processed = @ + 1,
            !.succeeded = @ + 1,
            !.operations = Append(@, Outcome(file, "success", NoFailure))]
    ELSE [res EXCEPT
            !.processed = @ + 1,
            !.failed = @ + 1,
            !.operations =
              Append(@, Outcome(file, "failed",
                                [kind |-> IF resp.status = 0 THEN "exception"
                                          ELSE "status",
                                 status |-> resp.status]))]

ServerRecordBatch(res, files, resp) ==
  IF Ok(resp)
    THEN [res EXCEPT
            !.processed = Len(files),
            !.succeeded = Len(files),
            !.operations =
              [n \in 1..Len(files) |-> Outcome(files[n], "success", NoFailure)]]
    ELSE [res EXCEPT
            !.processed = Len(files),
            !.failed = Len(files),
            !.operations =
              [n \in 1..Len(files) |->
                 Outcome(files[n], "failed",
                   [kind |-> IF resp.status = 0 THEN "Batch operation error"
                             ELSE "Batch operation failed",
                    status |-> resp.status])]]

\* Valid records without a sha of the caller, with the strategy left to the
\* handler or batch asked for, for the configured instance
\* and for one that is not configured
ArgsBoth ==
  {Args("main", f, s, d, r) :
     f \in SeqsUpTo(RawFilesModes, MaxFiles) \ {<<>>},
     s \in {"auto", "batch"}, d \in BOOLEAN, r \in BOOLEAN}
    \cup {Args("other", <<f>>, "auto", TRUE, FALSE) : f \in RawFilesModes}

InitBoth ==
  /\ args \in ArgsBoth
  /\ store \in Stores
  /\ pc = "start"
  /\ normalizedFiles = <<>>
  /\ needsUpdate = <<>>
  /\ i = 1
  /\ j = 1
  /\ strategy = ""
  /\ executor = ""
  /\ result = NewResult(0, 0, 0)
  /\ response = NoResponse
  /\ calls = <<>>
  /\ run = 1
  /\ first = Kept(store, <<>>, NoResponse)

\* The tool module's call has returned; the same arguments go to the server
\* class, against the branch as it was
RunServer ==
  /\ pc = "returned"
  /\ run = 1
  /\ first' = Kept(first.store, calls, response)
  /\ store' = first.store
  /\ run' = 2
  /\ pc' = "start"
  /\ normalizedFiles' = <<>>
  /\ needsUpdate' = <<>>
  /\ i' = 1
  /\ j' = 1
  /\ strategy' = ""
  /\ executor' = ""
  /\ result' = ServerNewResult(0, 0, 0)
  /\ response' = NoResponse
  /\ calls' = <<>>
  /\ UNCHANGED args

\* Parameter checks, instance lookup and validateAndNormalizeFiles
handleSyncUpdate ==
  /\ pc = "start"
  /\ IF ServerThrownAtStart(args) # NoError
       THEN /\ response' = ServerErrorResponse(ServerThrownAtStart(args))
            /\ pc' = "returned"
            /\ UNCHANGED <<normalizedFiles, needsUpdate>>
       ELSE /\ normalizedFiles' = ServerValidateAndNormalizeFiles(args.files)
            /\ IF args.detectChanges
                 THEN /\ needsUpdate' = <<>>
                      /\ pc' = "detect"
                 ELSE /\ needsUpdate' = [n \in 1..Len(args.files) |-> n]
                      /\ pc' = "select"
            /\ UNCHANGED response
  /\ i' = 1
  /\ UNCHANGED <<args, store, j, strategy, executor, result, calls, run, first>>

\* detectChangesNeeded: one turn of the loop
ServerProbe ==
  /\ pc = "detect"
  /\ i <= Len(normalizedFiles)
  /\ \E r \in ProbeResponses(store, normalizedFiles[i].path) :
       LET d == ServerDetectOne(normalizedFiles[i], r) IN
         /\ normalizedFiles' = [normalizedFiles EXCEPT ![i] = d.file]
         /\ needsUpdate' = IF d.push THEN Append(needsUpdate, i) ELSE needsUpdate
         /\ calls' = Append(calls, Call("GET", <<i>>, normalizedFiles[i].path,
                                        None, None, <<>>, r))
  /\ i' = i + 1
  /\ UNCHANGED <<args, store, pc, j, strategy, executor, result, response,
                 run, first>>

\* determineStrategy, the result object, and either the dry-run return or the
\* choice of the executor
ServerSelect ==
  /\ \/ pc = "select"
     \/ pc = "detect" /\ i > Len(normalizedFiles)
  /\ strategy' = ServerDetermineStrategy(args.strategy, Plan)
  /\ IF args.dryRun
       THEN /\ result' =
                 [ServerNewResult(Len(args.files), Len(normalizedFiles),
                                  Len(Plan))
                    EXCEPT !.operations =
                      [n \in 1..Len(Plan) |->
                         Outcome(Plan[n], "would-execute", NoFailure)]]
            /\ response' =
                 [NoResponse EXCEPT
                    !.kind = "dryRun",
                    !.strategy = strategy',
                    !.summary = result',
                    !.filesNeedingUpdate =
                      [n \in 1..Len(Plan) |->
                         [path |-> Plan[n].path,
                          operation |-> Plan[n].operation,
                          hasRemoteSha |-> Plan[n].sha # None]]]
            /\ pc' = "returned"
            /\ UNCHANGED executor
       ELSE /\ result' =
                 ServerNewResult(Len(args.files), Len(normalizedFiles),
                                 Len(Plan))
            /\ executor' = ServerChooseExecutor(strategy', Plan)
            /\ pc' = executor'
            /\ UNCHANGED response
  /\ j' = 1
  /\ UNCHANGED <<args, store, normalizedFiles, needsUpdate, i, calls, run, first>>

\* executeIndividualUpdates: one turn of the loop
ServerIndividual ==
  /\ pc = "individual"
  /\ j <= Len(Plan)
  /\ LET file == Plan[j]
         ch == ServerIndividualChange(file)
     IN \E o \in WriteOutcomes(store, StoreWrite(store, ch)) :
          /\ store' = o.store
          /\ calls' = Append(calls, Call(ServerIndividualMethod(file),
                                         <<needsUpdate[j]>>, ch.path, ch.sha,
                                         ch.content, <<>>, o.resp))
          /\ result' = ServerRecordIndividual(result, file, o.resp)
  /\ j' = j + 1
  /\ UNCHANGED <<args, pc, normalizedFiles, needsUpdate, i, strategy, executor,
                 response, run, first>>

\* executeBatchUpdate: the one POST of all changes and the outcomes
ServerBatch ==
  /\ pc = "batch"
  /\ LET chs == [n \in 1..Len(Plan) |-> ServerBatchChange(Plan[n])]
     IN \E o \in WriteOutcomes(store, StoreBatch(store, store, chs)) :
          /\ store' = o.store
          /\ calls' = Append(calls, Call("POST", needsUpdate, None, None, None,
                                         chs, o.resp))
          /\ result' = ServerRecordBatch(result, Plan, o.resp)
  /\ pc' = "finish"
  /\ UNCHANGED <<args, normalizedFiles, needsUpdate, i, j, strategy, executor,
                 response, run, first>>

\* The return of handleSyncUpdate after the executor
ServerReturn ==
  /\ \/ pc = "finish"
     \/ pc = "individual" /\ j > Len(Plan)
  /\ response' =
       [NoResponse EXCEPT
          !.kind = "result",
          !.success = (result.failed = 0),
          !.strategy = strategy,
          !.summary = result]
  /\ pc' = "returned"
  /\ UNCHANGED <<args, store, normalizedFiles, needsUpdate, i, j, strategy,
                 executor, result, calls, run, first>>

NextServer ==
  \/ handleSyncUpdate
  \/ ServerProbe
  \/ ServerSelect
  \/ ServerIndividual
  \/ ServerBatch
  \/ ServerReturn

NextBoth ==
  \/ run = 1 /\ Next
  \/ RunServer
  \/ run = 2 /\ NextServer

SpecBoth == InitBoth /\ [][NextBoth]_vars

(***************************************************************************)
(* Properties                                                              *)
(***************************************************************************)
Range(s) == {s[n] : n \in DOMAIN s}

\* The probes (GET calls) made for file n of normalizedFiles
ProbesOf(n) == {c \in Range(calls) : c.method = "GET" /\ c.ops = <<n>>}

\* The write calls issued so far
Writes == {c \in Range(calls) : c.method # "GET"}

\* The operation and path the caller asked for in record n
AskedOperation(n) == OperationOf(args.files[n])
AskedPath(n) == ReplaceBackslashes(args.files[n].path)

\* The second call has returned, after a first call that reported success
SecondReturned ==
  /\ run = 2
  /\ pc = "returned"
  /\ args.detectChanges
  /\ first.kind = "result"
  /\ first.success

\* C1 as stated: when the same files are submitted twice with
\* detectChanges=true and the first run reports success, the plan of the
\* second run is empty, whatever mix of add, modify and delete was sent.
C1_IdempotentAnyMix ==
  SecondReturned => response.summary.needsUpdate = 0

\* The inputs for which resubmitting finds nothing to do: modify and delete
\* operations only, no two of them on one path
OnlyModifyDelete ==
  \A n \in DOMAIN args.files : AskedOperation(n) \in {"modify", "delete"}

DistinctPaths ==
  \A n, m \in DOMAIN args.files : n # m => AskedPath(n) # AskedPath(m)

\* Every probe of the current call was answered by the store (200 or 404)
ProbesAnswered ==
  \A c \in Range(calls) : c.method = "GET" => c.resp.status \in {200, 404}

\* C1 (amended): when the same files are submitted twice with
\* detectChanges=true, the first run reports success, the input holds only
\* modify and delete operations on pairwise distinct paths and every probe of
\* the second run is answered by the store, the plan of the second run is
\* empty.
C1_IdempotentModifyDelete ==
  (SecondReturned /\ OnlyModifyDelete /\ DistinctPaths /\ ProbesAnswered)
    => response.summary.needsUpdate = 0

\* A second run that finds nothing to do after a first run that wrote a
\* modify and a delete
C1_Witness ==
  /\ SecondReturned /\ OnlyModifyDelete /\ DistinctPaths /\ ProbesAnswered
  /\ first.summary.succeeded = 2
  /\ \E n \in DOMAIN args.files : AskedOperation(n) = "delete"
  /\ \E n \in DOMAIN args.files : AskedOperation(n) = "modify"
  /\ response.summary.needsUpdate = 0

\* File n was probed, found on the remote, and is a modify whose content
\* equals the content the probe fetched
EqualModify(n) ==
  /\ normalizedFiles[n].operation = "modify"
  /\ \E c \in ProbesOf(n) :
       Ok(c.resp) /\ normalizedFiles[n].content = Base64Decode(c.resp.content)

\* C2: with detectChanges enabled, a modify whose content equals the content
\* its probe fetched is not in the plan, is not counted in the needsUpdate of
\* the summary, and no write call is issued for it.
C2_EqualModifyNotPlanned ==
  args.detectChanges =>
    \A n \in DOMAIN normalizedFiles :
      EqualModify(n) =>
        /\ n \notin Range(needsUpdate)
        /\ \A c \in Writes : n \notin Range(c.ops)
        /\ pc \in {"individual", "batch", "finish", "returned"} =>
             result.needsUpdate = Len(needsUpdate)

\* A call that returned its summary after leaving out an equal modify and
\* writing another file
C2_Witness ==
  /\ pc = "returned"
  /\ response.kind = "result"
  /\ args.detectChanges
  /\ \E n \in DOMAIN normalizedFiles : EqualModify(n)
  /\ Writes # {}
  /\ response.summary.needsUpdate = 1

\* C3: with detectChanges enabled, the path of every modify that was left out
\* of the plan because its content equals the stored content is in the
\* unchanged list of the returned summary.
C3_UnchangedListed ==
  (pc = "returned" /\ response.kind \in {"result", "dryRun"}
     /\ args.detectChanges) =>
    \A n \in DOMAIN normalizedFiles :
      EqualModify(n) =>
        normalizedFiles[n].path \in Range(response.summary.unchanged)

\* A write call that holds the changes of the whole plan (executeBatchUpdate)
IsBatch(c) == c.method = "POST" /\ c.path = None

\* The number of write calls issued so far
NumWrites == Cardinality({n \in DOMAIN calls : calls[n].method # "GET"})

\* The caller asked for a modify of file n and its probe came back 404
ModifyOfAbsent(n) ==
  /\ AskedOperation(n) = "modify"
  /\ \E c \in ProbesOf(n) : c.resp.status = 404

\* C4: with detectChanges enabled, a modify of a path the probe reports as
\* absent (404) is in the plan as an add with no sha, and every write issued
\* for it is a create that carries no sha (a POST of the file, or a create
\* entry of the batch); a call that returns its summary has issued one.
C4_ModifyOfAbsentIsAdd ==
  args.detectChanges =>
    \A n \in DOMAIN normalizedFiles :
      ModifyOfAbsent(n) =>
        /\ n \in Range(needsUpdate)
        /\ normalizedFiles[n].operation = "add"
        /\ normalizedFiles[n].sha = None
        /\ \A c \in Writes :
             /\ c.ops = <<n>> => c.method = "POST" /\ c.sha = None
             /\ IsBatch(c) =>
                  \A k \in DOMAIN c.ops :
                    c.ops[k] = n =>
                      c.files[k].operation = "create" /\ c.files[k].sha = None
        /\ (pc = "returned" /\ response.kind = "result") =>
             \E c \in Writes : n \in Range(c.ops)

\* A modify with a caller-supplied sha, of a path that is absent, created by
\* a POST without sha
C4_Witness ==
  /\ pc = "returned"
  /\ response.kind = "result"
  /\ args.detectChanges
  /\ \E n \in DOMAIN normalizedFiles :
       /\ ModifyOfAbsent(n)
       /\ args.files[n].sha # None
       /\ \E c \in Writes :
            c.ops = <<n>> /\ c.method = "POST" /\ c.sha = None /\ Ok(c.resp)

\* The caller asked for a delete of file n and its probe came back 404
DeleteOfAbsent(n) ==
  /\ AskedOperation(n) = "delete"
  /\ \E c \in ProbesOf(n) : c.resp.status = 404

\* C5: with detectChanges enabled, a delete of a path the probe reports as
\* absent is not in the plan and no write call is issued for it; when the
\* plan is empty the call issues no write call and returns success with
\* needsUpdate = 0, succeeded = 0 and failed = 0.
C5_DeleteOfAbsentIsNoOp ==
  args.detectChanges =>
    /\ \A n \in DOMAIN normalizedFiles :
         DeleteOfAbsent(n) =>
           /\ n \notin Range(needsUpdate)
           /\ \A c \in Writes : n \notin Range(c.ops)
    /\ (pc = "returned" /\ response.kind = "result" /\ needsUpdate = <<>>) =>
         /\ Writes = {}
         /\ response.success
         /\ response.summary.needsUpdate = 0
         /\ response.summary.succeeded = 0
         /\ response.summary.failed = 0

\* A call of two files, one of them a delete of an absent path, that returned
\* with an empty plan
C5_Witness ==
  /\ pc = "returned"
  /\ response.kind = "result"
  /\ args.detectChanges
  /\ Len(normalizedFiles) = 2
  /\ \E n \in DOMAIN normalizedFiles : DeleteOfAbsent(n)
  /\ needsUpdate = <<>>
  /\ response.success

\* C6: with detectChanges enabled, for every modify or delete whose path the
\* probe finds present, each write call issued for it is an update or delete
\* that carries the sha the probe returned, whatever sha the caller supplied.
C6_WritesCarryProbedSha ==
  args.detectChanges =>
    \A n \in DOMAIN normalizedFiles :
      \A p \in ProbesOf(n) :
        (Ok(p.resp) /\ AskedOperation(n) \in {"modify", "delete"}) =>
          \A c \in Writes :
            /\ c.ops = <<n>> =>
                 c.method \in {"PUT", "DELETE"} /\ c.sha = p.resp.sha
            /\ IsBatch(c) =>
                 \A k \in DOMAIN c.ops :
                   c.ops[k] = n =>
                     /\ c.files[k].operation \in {"update", "delete"}
                     /\ c.files[k].sha = p.resp.sha

\* An update sent with the probed sha where the caller supplied another one
C6_Witness ==
  /\ args.detectChanges
  /\ \E n \in DOMAIN normalizedFiles :
       \E p \in ProbesOf(n) :
         /\ Ok(p.resp)
         /\ args.files[n].sha # None
         /\ args.files[n].sha # p.resp.sha
         /\ \E c \in Writes :
              c.ops = <<n>> /\ c.method = "PUT" /\ c.sha = p.resp.sha

\* The probe of file n failed: fetch threw, or the status is an error other
\* than 404
FailedProbe(n) == \E c \in ProbesOf(n) : c.resp.status \notin {200, 404}

\* C7: with detectChanges enabled, a file whose probe fails with an exception
\* or a non-404 error status is in the plan with the operation and sha the
\* caller gave; the remaining files are still probed and the call does not
\* end in an error.
C7_FailOpenProbe ==
  args.detectChanges =>
    /\ \A n \in DOMAIN normalizedFiles :
         FailedProbe(n) =>
           /\ n \in Range(needsUpdate)
           /\ normalizedFiles[n] = NormalizeFile(args.files[n])
    /\ (\E n \in DOMAIN normalizedFiles : FailedProbe(n)) =>
         /\ response.kind # "error"
         /\ pc # "detect" =>
              \A m \in DOMAIN normalizedFiles : ProbesOf(m) # {}

\* A call that returned its summary after the probe of its first file threw
\* and the probe of its second file got an error status
C7_Witness ==
  /\ pc = "returned"
  /\ response.kind = "result"
  /\ args.detectChanges
  /\ Len(normalizedFiles) = 2
  /\ \E c \in ProbesOf(1) : c.resp.status = 0
  /\ \E c \in ProbesOf(2) : c.resp.status = 500
  /\ args.files[2].sha # None
  /\ needsUpdate = <<1, 2>>

\* C8: with detectChanges=false no probe is issued and the plan is the
\* normalized list: the same operations in the same order, with the kinds and
\* the shas of the caller.
C8_NoDetectionPlanVerbatim ==
  ~args.detectChanges =>
    /\ \A c \in Range(calls) : c.method # "GET"
    /\ (pc # "start" /\ response.kind # "error") =>
         /\ needsUpdate = [n \in DOMAIN args.files |-> n]
         /\ Plan = [n \in DOMAIN args.files |-> NormalizeFile(args.files[n])]

\* A call without detection that wrote two files, one of them an update with
\* the sha of the caller
C8_Witness ==
  /\ ~args.detectChanges
  /\ pc = "returned"
  /\ response.kind = "result"
  /\ Len(Plan) = 2
  /\ \E c \in Writes :
       /\ c.method = "PUT"
       /\ c.sha # None
       /\ c.sha = args.files[c.ops[1]].sha
       /\ Ok(c.resp)

RequestedExecution ==
  IF args.strategy = "batch" /\ Len(Plan) <= 1 THEN "individual"
  ELSE args.strategy

\* C10: a call with strategy batch or individual is executed with that
\* strategy whatever the plan holds, except that batch with a plan of zero or
\* one operation is executed individually: batch is one write call for the
\* whole plan, individual is one write call per operation of the plan.
C10_ExplicitStrategyUsed ==
  (args.strategy \in {"batch", "individual"} /\ pc = "returned"
     /\ response.kind = "result") =>
    /\ executor = RequestedExecution
    /\ RequestedExecution = "batch" =>
         /\ NumWrites = 1
         /\ \A c \in Writes : IsBatch(c) /\ c.ops = needsUpdate
    /\ RequestedExecution = "individual" =>
         /\ NumWrites = Len(Plan)
         /\ \A c \in Writes : ~IsBatch(c)
         /\ \A k \in DOMAIN needsUpdate :
              \E c \in Writes : c.ops = <<needsUpdate[k]>>

\* A batch request executed as one batch call on a plan that holds a delete
C10_Witness ==
  /\ args.strategy = "batch"
  /\ pc = "returned"
  /\ response.kind = "result"
  /\ \E n \in DOMAIN Plan : Plan[n].operation = "delete"
  /\ \E c \in Writes : IsBatch(c) /\ Len(c.files) = 2

\* The write calls issued so far, in the order they were issued
WriteCalls == SelectSeq(calls, LAMBDA c : c.method # "GET")

\* C11: under the individual executor, a write that comes back with a
\* non-success status or whose fetch throws is recorded as a failed outcome of
\* its own file only: the outcomes are, one per write call and in the order
\* of the plan, success or failed as that call's response was, so earlier
\* outcomes are kept; the executor goes on to the operations after a failed
\* one, and the call returns its summary after one write call per operation
\* of the plan.
C11_IndividualFailureIsolated ==
  executor = "individual" =>
    /\ Len(result.operations) = Len(WriteCalls)
    /\ Len(WriteCalls) = j - 1
    /\ \A k \in DOMAIN WriteCalls :
         /\ WriteCalls[k].ops = <<needsUpdate[k]>>
         /\ result.operations[k].file = Plan[k].path
         /\ result.operations[k].operation = Plan[k].operation
         /\ result.operations[k].status =
              IF Ok(WriteCalls[k].resp) THEN "success" ELSE "failed"
    /\ pc = "returned" =>
         /\ response.kind = "result"
         /\ Len(WriteCalls) = Len(Plan)

\* A call of two operations whose first write threw and whose second write
\* succeeded all the same, returned with a failed and a success outcome
C11_Witness ==
  /\ executor = "individual"
  /\ pc = "returned"
  /\ response.kind = "result"
  /\ Len(Plan) = 2
  /\ WriteCalls[1].resp.status = 0
  /\ Ok(WriteCalls[2].resp)
  /\ response.summary.operations[1].status = "failed"
  /\ response.summary.operations[2].status = "success"

\* C12: under the batch executor one write call is issued, a POST that holds
\* the changes of the whole plan; after it there is one outcome per operation
\* of the plan, and either the response was ok and every outcome is success,
\* or the response was a non-success status or the fetch threw and every
\* outcome is failed with one and the same error.
C12_BatchAllOrNothing ==
  executor = "batch" =>
    /\ Len(WriteCalls) <= 1
    /\ pc \in {"finish", "returned"} =>
         /\ Len(WriteCalls) = 1
         /\ IsBatch(WriteCalls[1])
         /\ WriteCalls[1].ops = needsUpdate
         /\ Len(result.operations) = Len(Plan)
         /\ \A k \in DOMAIN Plan :
              /\ result.operations[k].file = Plan[k].path
              /\ result.operations[k].operation = Plan[k].operation
         /\ IF Ok(WriteCalls[1].resp)
              THEN \A k \in DOMAIN Plan :
                     result.operations[k].status = "success"
              ELSE \A k \in DOMAIN Plan :
                     /\ result.operations[k].status = "failed"
                     /\ result.operations[k].error # NoFailure
                     /\ result.operations[k].error = result.operations[1].error

\* A batch of two operations whose POST threw: both outcomes failed with the
\* error of the exception
C12_Witness ==
  /\ executor = "batch"
  /\ pc = "returned"
  /\ response.kind = "result"
  /\ Len(Plan) = 2
  /\ WriteCalls[1].resp.status = 0
  /\ \A k \in 1..2 :
       /\ response.summary.operations[k].status = "failed"
       /\ response.summary.operations[k].error.kind = "Batch operation error"

\* C13: a call with dryRun=true issues no write call (no POST, PUT or DELETE
\* of a file and no POST of a batch), whatever the files, the requested
\* strategy and the responses of the store; every call it issues is a GET of
\* a probe, and no executor is entered.
C13_DryRunNeverWrites ==
  args.dryRun =>
    /\ \A c \in Range(calls) : c.method = "GET"
    /\ WriteCalls = <<>>
    /\ executor = ""
    /\ pc \notin {"individual", "batch", "finish"}

\* A dry run that returned a plan of two operations, one of them put there by
\* a probe that failed, after probe reads only
C13_Witness ==
  /\ args.dryRun
  /\ pc = "returned"
  /\ response.kind = "dryRun"
  /\ Len(response.filesNeedingUpdate) = 2
  /\ Len(calls) = 2
  /\ \E n \in DOMAIN normalizedFiles : FailedProbe(n)
  /\ \E n \in DOMAIN Plan : Plan[n].operation = "delete"

\* The call that follows a dry run has built its plan
RealAfterDry ==
  /\ run = 2
  /\ first.kind = "dryRun"
  /\ pc \in {"individual", "batch", "finish", "returned"}

\* Paths and kinds, in order, of the plan a dry run reported, of the plan at
\* hand, and of the outcomes of a summary
ReportedPlan(resp) ==
  [n \in DOMAIN resp.filesNeedingUpdate |->
     [path |-> resp.filesNeedingUpdate[n].path,
      operation |-> resp.filesNeedingUpdate[n].operation]]

PlanAtHand ==
  [n \in DOMAIN Plan |-> [path |-> Plan[n].path,
                          operation |-> Plan[n].operation]]

OutcomePlan(resp) ==
  [n \in DOMAIN resp.summary.operations |->
     [path |-> resp.summary.operations[n].file,
      operation |-> resp.summary.operations[n].operation]]

\* C14 as stated: the plan a dry run reported (paths, kinds, order) is the
\* plan the same call without dryRun builds and executes against the same
\* branch.
C14_DryRunPlanIsExecuted ==
  RealAfterDry =>
    /\ PlanAtHand = ReportedPlan(first)
    /\ pc = "returned" => OutcomePlan(response) = ReportedPlan(first)

\* The two probes of each file, the one of the dry run and the one of the
\* call that follows, came back with the same response
SameProbeResponses ==
  \A n \in DOMAIN args.files :
    \A c, d \in ProbesOf(n) : c.resp = d.resp

\* C14 (amended): when the two probes of each file came back with the same
\* response, the plan a dry run reported (paths, kinds, order) is the plan
\* the same call without dryRun builds against the same branch, and the
\* outcomes of its summary are those operations in that order.
C14_DryRunPlanIsExecutedSameProbes ==
  (RealAfterDry /\ SameProbeResponses) =>
    /\ PlanAtHand = ReportedPlan(first)
    /\ pc = "returned" => OutcomePlan(response) = ReportedPlan(first)

\* A dry run of two files that reported a plan of one add, made from a modify
\* of an absent path, followed by the call that created that file
C14_Witness ==
  /\ RealAfterDry
  /\ SameProbeResponses
  /\ args.detectChanges
  /\ pc = "returned"
  /\ Len(args.files) = 2
  /\ Len(first.filesNeedingUpdate) = 1
  /\ first.filesNeedingUpdate[1].operation = "add"
  /\ \E n \in DOMAIN args.files : ModifyOfAbsent(n)
  /\ response.kind = "result"
  /\ response.success

\* A path segment ".." of p: two dots with a separator or an end of the path
\* on either side
Separators == {"/", "\\"}

ParentSegment(p) ==
  \E n \in 1..(Len(p) - 1) :
    /\ p[n] = "." /\ p[n + 1] = "."
    /\ n = 1 \/ p[n - 1] \in Separators
    /\ n + 1 = Len(p) \/ p[n + 2] \in Separators

LeadingSeparator(p) == Len(p) > 0 /\ p[1] \in Separators

\* A record of the input that is invalid: no path, an unknown kind, an add or
\* modify without content, a path with a ".." segment or a leading separator
InvalidRecord(f) ==
  \/ f.path = None
  \/ f.operation \notin {"", "add", "modify", "delete"}
  \/ f.operation \in {"", "add", "modify"} /\ f.content = None
  \/ ParentSegment(f.path)
  \/ LeadingSeparator(f.path)

SomeRecordInvalid == \E n \in DOMAIN args.files : InvalidRecord(args.files[n])

\* C15: when a record of the input is invalid, the call ends in an error and
\* no network call, probe or write, is issued at any time, also not for the
\* valid records in front of the invalid one.
C15_InvalidInputNoNetwork ==
  SomeRecordInvalid =>
    /\ calls = <<>>
    /\ pc \in {"start", "returned"}
    /\ pc = "returned" => response.kind = "error"

\* A call to a known instance that failed without any network call on a valid
\* record followed by an invalid one
C15_Witness ==
  /\ pc = "returned"
  /\ response.kind = "error"
  /\ args.instanceId \in ConfiguredInstances
  /\ Len(args.files) = 2
  /\ ~InvalidRecord(args.files[1])
  /\ InvalidRecord(args.files[2])
  /\ calls = <<>>

\* The call ended in an error thrown for an invalid record: the files are not
\* empty and the instance is known, so validateAndNormalizeFiles threw
RecordValidationFailed ==
  /\ pc = "returned"
  /\ response.kind = "error"
  /\ args.files # <<>>
  /\ args.instanceId \in ConfiguredInstances

\* C16: an error thrown for an invalid record of the input (bad path, missing
\* content, unknown kind) reaches the caller with the code VALIDATION_ERROR,
\* which is not the code of store and API failures.
C16_ValidationErrorCategory ==
  RecordValidationFailed =>
    /\ response.code = "VALIDATION_ERROR"
    /\ response.code # "EXTERNAL_API_ERROR"

\* The input passed the parameter checks and validateAndNormalizeFiles, and
\* the instance is configured
ValidatedAndKnown == ThrownAtStart(args) = NoError

\* The outcomes of a summary that are failed
FailedOutcomes(res) ==
  {k \in DOMAIN res.operations : res.operations[k].status = "failed"}

\* The call returned a summary that is complete: the counters of the input
\* and of the plan, one outcome per operation of the plan, and every failure
\* of the store as a failed outcome counted in failed
CompleteSummaryReturned ==
  /\ pc = "returned"
  /\ response.kind \in {"result", "dryRun"}
  /\ response.summary.discovered = Len(args.files)
  /\ response.summary.needsUpdate = Len(Plan)
  /\ Len(response.summary.operations) = Len(Plan)
  /\ response.kind = "result" =>
       /\ response.summary.failed = Cardinality(FailedOutcomes(response.summary))
       /\ (\E c \in Writes : ~Ok(c.resp)) <=> response.summary.failed > 0

\* C17: a call whose input passed validation and whose instance is known
\* never ends in an error and always comes to return a complete summary,
\* whatever the responses and exceptions of the probes and of the writes;
\* failures of the store are failed outcomes of that summary.
C17_AlwaysCompleteSummary ==
  /\ [](ValidatedAndKnown => response.kind # "error")
  /\ ValidatedAndKnown ~> CompleteSummaryReturned

\* A complete summary returned by a call whose two probes failed and whose
\* first write threw
C17_Witness ==
  /\ ValidatedAndKnown
  /\ CompleteSummaryReturned
  /\ response.kind = "result"
  /\ Len(Plan) = 2
  /\ \A n \in DOMAIN normalizedFiles : FailedProbe(n)
  /\ WriteCalls[1].resp.status = 0
  /\ response.summary.failed >= 1

\* The call returned a summary (of an execution or of a dry run)
SummaryReturned ==
  pc = "returned" /\ response.kind \in {"result", "dryRun"}

\* C18: in every returned summary, discovered is the number of records of the
\* input, analyzed is the number of normalized operations and equals
\* discovered, and needsUpdate is the number of operations of the plan.
C18_SummaryCounters ==
  SummaryReturned =>
    /\ response.summary.discovered = Len(args.files)
    /\ response.summary.analyzed = Len(normalizedFiles)
    /\ response.summary.analyzed = response.summary.discovered
    /\ response.summary.needsUpdate = Len(Plan)

\* A summary of two records of which one is in the plan
C18_Witness ==
  /\ SummaryReturned
  /\ response.kind = "result"
  /\ response.summary.discovered = 2
  /\ response.summary.analyzed = 2
  /\ response.summary.needsUpdate = 1

\* C19: in the summary a call without dryRun returns, after either executor,
\* processed is the number of outcome records and equals needsUpdate,
\* succeeded + failed is processed, succeeded and failed count the outcomes
\* of their status, and the success flag is true exactly when failed is 0.
C19_OutcomeCounters ==
  (pc = "returned" /\ response.kind = "result") =>
    LET sm == response.summary IN
      /\ executor \in {"individual", "batch"}
      /\ sm.processed = Len(sm.operations)
      /\ sm.processed = sm.needsUpdate
      /\ sm.succeeded + sm.failed = sm.processed
      /\ sm.failed = Cardinality(FailedOutcomes(sm))
      /\ response.success <=> sm.failed = 0

\* The summary of a batch of two operations that the store rejected:
\* processed 2, failed 2, succeeded 0, success false
C19_Witness ==
  /\ pc = "returned"
  /\ response.kind = "result"
  /\ executor = "batch"
  /\ response.summary.processed = 2
  /\ response.summary.failed = 2
  /\ response.summary.succeeded = 0
  /\ ~response.success
  /\ WriteCalls[1].resp.status = 422

\* A path as the repository takes it: forward slashes only, no ".." segment,
\* no separator in front
HasBackslash(p) == \E n \in DOMAIN p : p[n] = "\\"

SafePath(p) == ~HasBackslash(p) /\ ~ParentSegment(p) /\ ~LeadingSeparator(p)

\* The paths a call names: the path of the URL of a probe or of a write of
\* one file, the paths of the changes of a batch
PathsOfCall(c) ==
  IF IsBatch(c) THEN {c.files[k].path : k \in DOMAIN c.files} ELSE {c.path}

\* C20: every path validateAndNormalizeFiles returns, and every path named in
\* a network call, has no backslash, no ".." segment and no separator in
\* front; a call with a record whose path has a ".." segment or a separator
\* in front (with either separator, so also after normalization) ends in an
\* error.
C20_PathsSafe ==
  /\ \A n \in DOMAIN normalizedFiles : SafePath(normalizedFiles[n].path)
  /\ \A c \in Range(calls) : \A p \in PathsOfCall(c) : SafePath(p)
  /\ \A n \in DOMAIN args.files :
       (ParentSegment(args.files[n].path)
          \/ LeadingSeparator(args.files[n].path)) =>
         /\ pc \in {"start", "returned"}
         /\ pc = "returned" => response.kind = "error"

\* A record whose path is written with a backslash, created on the branch
\* under the path with a forward slash
C20_Witness ==
  /\ pc = "returned"
  /\ response.kind = "result"
  /\ args.files[1].path = <<"a", "\\", ".", "a">>
  /\ \E c \in Writes :
       c.path = <<"a", "/", ".", "a">> /\ c.method = "POST" /\ Ok(c.resp)

\* C21: the outcome records are in the order of the input list: the
\* normalized operations stand for the records of the input one by one, the
\* plan holds them in rising order of their place in the input, and outcome k
\* is the outcome of operation k of the plan, under either executor.
C21_OutcomesInInputOrder ==
  /\ \A n \in DOMAIN normalizedFiles : normalizedFiles[n].path = AskedPath(n)
  /\ \A k, l \in DOMAIN needsUpdate : k < l => needsUpdate[k] < needsUpdate[l]
  /\ executor \in {"individual", "batch"} =>
       \A k \in DOMAIN result.operations :
         /\ k \in DOMAIN needsUpdate
         /\ result.operations[k].file = AskedPath(needsUpdate[k])
         /\ result.operations[k].operation =
              normalizedFiles[needsUpdate[k]].operation

\* A batch of two operations on two paths whose outcomes are returned in the
\* order of the input
C21_Witness ==
  /\ pc = "returned"
  /\ response.kind = "result"
  /\ executor = "batch"
  /\ Len(response.summary.operations) = 2
  /\ AskedPath(1) # AskedPath(2)
  /\ response.summary.operations[1].file = AskedPath(1)
  /\ response.summary.operations[2].file = AskedPath(2)

\* The requests of the history that have no response yet
InFlight == {n \in DOMAIN calls : calls[n].resp = Pending}

\* C22: at most one request of the call, probe or write, is in flight; a
\* request in flight is the last one issued, so every request before it had
\* completed when it was issued.
C22_OneRequestInFlight ==
  /\ Cardinality(InFlight) <= 1
  /\ \A n \in InFlight : n = Len(calls)

\* The second write of a call in flight, after two probes and one write that
\* have completed
C22_Witness ==
  /\ pc = "writing"
  /\ Len(calls) = 4
  /\ InFlight = {4}
  /\ calls[1].method = "GET"
  /\ calls[3].method # "GET"

\* The write calls of the history that were issued for file n
WritesFor(n) ==
  {k \in DOMAIN calls : calls[k].method # "GET" /\ n \in Range(calls[k].ops)}

\* Every operation is planned at most once, has at most one outcome and at
\* most one write call, skipped operations have none, and a call that returns
\* its summary has given every planned operation the outcome success or
\* failed
OneOutcomeEach ==
  /\ \A k, l \in DOMAIN needsUpdate : k # l => needsUpdate[k] # needsUpdate[l]
  /\ Len(result.operations) <= Len(needsUpdate)
  /\ \A n \in DOMAIN normalizedFiles :
       /\ Cardinality(WritesFor(n)) <= 1
       /\ n \notin Range(needsUpdate) => WritesFor(n) = {}
  /\ (pc = "returned" /\ response.kind = "result") =>
       /\ Len(result.operations) = Len(needsUpdate)
       /\ \A k \in DOMAIN result.operations :
            result.operations[k].status \in {"success", "failed"}

\* No step changes or removes an outcome that is recorded
OutcomesKept ==
  \A k \in DOMAIN result.operations :
    /\ k \in DOMAIN result'.operations
    /\ result'.operations[k] = result.operations[k]

\* C23: each normalized operation is skipped or planned once; a planned
\* operation of a call without dryRun ends as success or failed, with one
\* outcome record; a skipped operation gets no write call, a planned one at
\* most one (no retry); and no step changes an outcome once it is recorded.
C23_PerFileStateMachine == []OneOutcomeEach /\ [][OutcomesKept]_vars

\* A returned call of two planned operations, the first failed and not tried
\* again, the second succeeded
C23_Witness ==
  /\ pc = "returned"
  /\ response.kind = "result"
  /\ Len(needsUpdate) = 2
  /\ Cardinality(WritesFor(needsUpdate[1])) = 1
  /\ result.operations[1].status = "failed"
  /\ result.operations[2].status = "success"
  /\ WriteCalls[1].resp.status = 500

\* Up to call n, the store answered the second call as it answered the first
SameAnswers(n) ==
  \A k \in 1..n :
    k \in DOMAIN first.calls /\ calls[k].resp = first.calls[k].resp

WritesOf(c) ==
  SelectSeq(calls, LAMBDA h : h.call = c /\ h.method # "GET")

\* C25: with two calls interleaved on one existing path, a write whose token
\* is stale when the store gets it is not applied, and its call records the
\* file as failed; a write the store did not accept is never recorded as a
\* success, and a call with such a write does not return success.
C25_StaleWriteFails ==
  \A c \in CallIds :
    /\ Len(result[c].operations) = Len(WritesOf(c))
    /\ \A k \in DOMAIN WritesOf(c) :
         LET h == WritesOf(c)[k] IN
           /\ h.stale => ~h.applied /\ ~Ok(h.resp)
           /\ ~Ok(h.resp) =>
                /\ ~h.applied
                /\ result[c].operations[k].status = "failed"
                /\ result[c].operations[k].file = h.path
                /\ pc[c] = "returned" => ~response[c].success

\* Both calls probed the file before either wrote: the first write was
\* applied, the second came with a stale token, was rejected and is reported
\* failed by its call
C25_Witness ==
  /\ \A c \in CallIds : pc[c] = "returned"
  /\ Len(calls) = 4
  /\ calls[1].method = "GET" /\ calls[2].method = "GET"
  /\ calls[3].applied
  /\ calls[4].stale /\ calls[4].resp.status = 422
  /\ calls[3].call # calls[4].call
  /\ response[calls[3].call].success
  /\ ~response[calls[4].call].success
  /\ response[calls[4].call].summary.operations[1].status = "failed"

\* C26: a create_repository call that gives no private argument posts a
\* repository with private true, whichever handler serves it.
C26_PrivateByDefault ==
  args.private = Undefined =>
    \A c \in Range(calls) : c.body.private = "true"

\* This step issues a write of the individual executor, in a call with change
\* detection whose probes were all answered by the store
IssuesIndividualWrite ==
  /\ pc = "individual"
  /\ args.detectChanges
  /\ ProbesAnswered
  /\ Len(calls') = Len(calls) + 1

\* The write this step issues, if it is an update or a delete, carries the
\* sha of the file the store holds under its path before the step
TokenCurrent ==
  LET c == calls'[Len(calls')] IN
    c.method \in {"PUT", "DELETE"} =>
      /\ store[c.path].exists
      /\ c.sha = Sha(store[c.path].content)

\* C27 as stated: with change detection and answered probes, every update and
\* delete the individual executor issues carries the sha the store holds for
\* its path when it is issued, whatever paths the input names.
C27_TokenCurrentAtIssue == [][IssuesIndividualWrite => TokenCurrent]_vars

\* C27 (amended): with change detection and answered probes, and an input in
\* which no two records name the same path, every update and delete the
\* individual executor issues carries the sha the store holds for its path
\* when it is issued.
C27_TokenCurrentDistinctPaths ==
  [][(IssuesIndividualWrite /\ DistinctPaths) => TokenCurrent]_vars

\* An update of one path and a delete of another, both issued with the sha
\* the store held and both accepted
C27_Witness ==
  /\ pc = "returned"
  /\ executor = "individual"
  /\ args.detectChanges
  /\ ProbesAnswered
  /\ DistinctPaths
  /\ Len(WriteCalls) = 2
  /\ \E k \in 1..2 : WriteCalls[k].method = "PUT" /\ Ok(WriteCalls[k].resp)
  /\ \E k \in 1..2 : WriteCalls[k].method = "DELETE" /\ Ok(WriteCalls[k].resp)

\* The combined commit requests issued by the current call
BatchCalls == {n \in DOMAIN calls : IsBatch(calls[n])}

\* The per-file write requests issued by the current call
PerFileCalls ==
  {n \in DOMAIN calls : calls[n].method # "GET" /\ ~IsBatch(calls[n])}

\* C28: the strategy of a non-dry-run response is batch only if exactly one
\* combined commit request was issued for the plan and no per-file write, and
\* individual only if no combined commit request was issued.
C28_StrategyNamesExecutor ==
  (pc = "returned" /\ response.kind = "result") =>
    /\ response.strategy = "batch" =>
         Cardinality(BatchCalls) = 1 /\ PerFileCalls = {}
    /\ response.strategy = "individual" => BatchCalls = {}

\* The sha record n has when the probes are over: the one its probe reported
\* if the probe found the file, the caller's otherwise
ProbedToken(n) ==
  IF \E c \in ProbesOf(n) : Ok(c.resp)
    THEN (CHOOSE c \in ProbesOf(n) : Ok(c.resp)).resp.sha
    ELSE args.files[n].sha

\* The sha values write call k sends for updates and deletes, each with the
\* record it was sent for
TokensOf(k) ==
  IF IsBatch(calls[k])
    THEN {<<calls[k].ops[m], calls[k].files[m].sha>> :
            m \in {l \in DOMAIN calls[k].files :
                     calls[k].files[l].operation \in {"update", "delete"}}}
  ELSE IF calls[k].method \in {"PUT", "DELETE"}
    THEN {<<calls[k].ops[1], calls[k].sha>>}
  ELSE {}

Summarized(resp) == resp.kind \in {"result", "dryRun"}

\* C30: on records that pass validation, the sync_update of the server class
\* issues the same requests in the same order as the one of the tool module as
\* long as the store answers alike, and then returns when the other did, with
\* the same strategy, the same summary counts and the same outcomes; a call
\* that one of them ends with an error, the other ends with an error too.
C30_ImplementationsEquivalent ==
  run = 2 =>
    /\ \A n \in DOMAIN calls :
         SameAnswers(n - 1) =>
           /\ n \in DOMAIN first.calls
           /\ [calls[n] EXCEPT !.resp = Pending]
                = [first.calls[n] EXCEPT !.resp = Pending]
    /\ (pc = "returned" /\ SameAnswers(Len(calls))) =>
         /\ calls = first.calls
         /\ Summarized(response) = Summarized(first.response)
         /\ Summarized(response) =>
              /\ response.kind = first.response.kind
              /\ response.success = first.response.success
              /\ response.strategy = first.response.strategy
              /\ response.summary = first.response.summary
              /\ response.filesNeedingUpdate
                   = first.response.filesNeedingUpdate

\* The server class has returned after two probes and two writes, one of
\* which failed, answered as they were for the tool module
C30_Witness ==
  /\ run = 2
  /\ pc = "returned"
  /\ Len(calls) = 4
  /\ SameAnswers(Len(calls))
  /\ response.kind = "result"
  /\ response.summary.succeeded = 1
  /\ response.summary.failed = 1
  /\ first.response.summary.failed = 1

====
